---- MODULE Spec2Model ----
(***************************************************************************)
(* Model of frontend/app/screens/HomeScreen.tsx (second, complete variant: *)
(* lines 423-1200): the lag-feature assembler (Xy), the CART regressor     *)
(* (variance, buildCART, predictTree, fitCART) and the HomeScreen          *)
(* lifecycle (import, target chooser, train, predict).                     *)
(*                                                                         *)
(* Numbers.  JavaScript numbers are modelled exactly: cell values and      *)
(* labels are integers, and every quantity the code derives from them by   *)
(* division (mean, variance, gain) is a rational <<num, den>> in lowest    *)
(* terms with den > 0.  The non-finite numbers are the distinguished       *)
(* values NaN and PosInf.                                                  *)
(***************************************************************************)
EXTENDS Integers, Sequences, FiniteSets, TLC

VARIABLES
    trX,         \* buildCART harness: the training matrix X (number[][])
    trY,         \* buildCART harness: the labels y (number[])
    trMaxDepth,  \* buildCART harness: the maxDepth argument of the last build
    trMinLeaf,   \* buildCART harness: the minLeaf argument of the last build
    trRoot,      \* buildCART harness: the tree returned by the last build
    trQuery,     \* buildCART harness: the vector last given to predictTree
    trPred,      \* buildCART harness: the value predictTree returned for it
    trPc,        \* buildCART harness: "input", "built" or "predicted"
    xyDf,        \* assembler harness: the DataFrame df
    xyTarget,    \* assembler harness: the target column
    xyOut,       \* assembler harness: the value of the memo Xy
    xyNext,      \* assembler harness: the vector makeNextX() returned
    xyPc,        \* assembler harness: "input", "assembled" or "done"
    df,          \* HomeScreen state: the DataFrame, or null
    visible,     \* HomeScreen state: series name -> shown in the chart
    target,      \* HomeScreen state: the target column, or null
    model,       \* HomeScreen state: the trained Model, or null
    prediction,  \* HomeScreen state: the last prediction, or null
    status,      \* HomeScreen state: the status message
    pending,     \* the onFileChange calls suspended at their await, oldest first
    lastPick     \* ghost: the file of the most recent onFileChange call

cartVars == <<trX, trY, trMaxDepth, trMinLeaf, trRoot, trQuery, trPred, trPc>>

xyVars == <<xyDf, xyTarget, xyOut, xyNext, xyPc>>

uiVars == <<df, visible, target, model, prediction, status, pending, lastPick>>

vars == <<cartVars, xyVars, uiVars>>

\* the absent tree (model === null)
NoTree == [kind |-> "none"]

-----------------------------------------------------------------------------
(* Exact rational arithmetic for the floating-point expressions of the code *)

Abs(a) == IF a < 0 THEN -a ELSE a

Max(a, b) == IF a >= b THEN a ELSE b

RECURSIVE GCD(_, _)
GCD(a, b) == IF b = 0 THEN a ELSE GCD(b, a % b)

LCM(a, b) == (a \div GCD(a, b)) * b

\* lowest terms, positive denominator
RNorm(r) ==
    LET g == GCD(Abs(r[1]), Abs(r[2]))
        s == IF r[2] < 0 THEN -1 ELSE 1
    IN  <<s * (r[1] \div g), s * (r[2] \div g)>>

RZero == <<0, 1>>

RInt(k) == <<k, 1>>

RSub(a, b) ==
    LET l == LCM(a[2], b[2])
    IN  RNorm(<<a[1] * (l \div a[2]) - b[1] * (l \div b[2]), l>>)

RMul(a, b) ==
    LET g1 == GCD(Abs(a[1]), b[2])
        g2 == GCD(Abs(b[1]), a[2])
    IN  RNorm(<<(a[1] \div g1) * (b[1] \div g2), (a[2] \div g2) * (b[2] \div g1)>>)

\* a < b
RLess(a, b) ==
    LET l == LCM(a[2], b[2])
    IN  a[1] * (l \div a[2]) < b[1] * (l \div b[2])

\* r <= 1e-12, the literal of the no-split test: num/den <= 1/10^12 iff
\* num <= floor(den / 10^12), and floor(floor(den/10^6)/10^6) = floor(den/10^12)
RLeqEps(r) == r[1] <= ((r[2] \div 1000000) \div 1000000)

RECURSIVE Sum(_)
Sum(s) == IF s = <<>> THEN 0 ELSE Head(s) + Sum(Tail(s))

RECURSIVE SumSq(_)
SumSq(s) == IF s = <<>> THEN 0 ELSE Head(s) * Head(s) + SumSq(Tail(s))

\* the two non-finite values a numeric read can give: NaN (also what reading
\* a missing array slot compares like) and Infinity
NaN == -1000001
PosInf == 1000001

\* Number.isFinite(v)
isFinite(v) == v # NaN /\ v # PosInf

\* a <= b on JavaScript numbers: false when either side is NaN
JsLeq(a, b) == a # NaN /\ b # NaN /\ a <= b

-----------------------------------------------------------------------------
(* CART (tiny decision tree regressor)                                      *)

\* population variance: sum((v - m)^2) / n = (n * sum(v^2) - sum(v)^2) / n^2
variance(arr) ==
    IF Len(arr) = 0 THEN RZero
    ELSE RNorm(<<Len(arr) * SumSq(arr) - Sum(arr) * Sum(arr), Len(arr) * Len(arr)>>)

\* y.reduce((a, b) => a + b, 0) / Math.max(1, n)
\* the leaf value without the division by the number of labels
LeafValueSum(y) == RInt(Sum(y))

LeafValue(y) == RNorm(<<Sum(y), Max(1, Len(y))>>)

\* the node { kind: "leaf", value, size, depth }; rows is a ghost field, the
\* identities of the training rows the node was built from
Leaf(ids, y, depth) ==
    [kind |-> "leaf", value |-> LeafValue(y), size |-> Len(y), depth |-> depth,
     rows |-> ids]

\* nFeat = X[0]?.length ?? 0
NFeat(X) == IF Len(X) = 0 THEN 0 ELSE Len(X[1])

\* the elements of a finite set of integers in ascending order
RECURSIVE Ascending(_)
Ascending(S) ==
    IF S = {} THEN <<>>
    ELSE LET m == CHOOSE a \in S : \A b \in S : a <= b
         IN  <<m>> \o Ascending(S \ {m})

\* the quantile positions taken in the sorted list of the distinct values
CandidatesOfDistinct(X, f) ==
    LET sorted == Ascending({X[i][f + 1] : i \in {j \in 1..Len(X) : isFinite(X[j][f + 1])}})
        qs     == SelectSeq([q \in 1..9 |-> q],
                            LAMBDA q : (q * Len(sorted)) \div 10 < Len(sorted))
    IN  [k \in 1..Len(qs) |-> sorted[((qs[k] * Len(sorted)) \div 10) + 1]]

\* the candidate thresholds of feature f (0-based): the values of the sorted
\* finite values of the column at the positions floor(q * length / 10),
\* q = 1..9
Candidates(X, f) ==
    LET vals   == SelectSeq([i \in 1..Len(X) |-> X[i][f + 1]], isFinite)
        sorted == SortSeq(vals, LAMBDA a, b : a < b)
        qs     == SelectSeq([q \in 1..9 |-> q],
                            LAMBDA q : (q * Len(sorted)) \div 10 < Len(sorted))
    IN  [k \in 1..Len(qs) |-> sorted[((qs[k] * Len(sorted)) \div 10) + 1]]

\* the left side taken with < while predictTree routes with <=
LeftIdxStrict(X, f, thr) ==
    SelectSeq([i \in 1..Len(X) |-> i], LAMBDA i : JsLeq(X[i][f + 1], thr) /\ X[i][f + 1] # thr)

\* the positions (1-based) that go left, v <= thr, and right, otherwise
LeftIdx(X, f, thr) ==
    SelectSeq([i \in 1..Len(X) |-> i], LAMBDA i : JsLeq(X[i][f + 1], thr))

\* the right side taken with >= : rows equal to the threshold go to both sides
RightIdxGeq(X, f, thr) ==
    SelectSeq([i \in 1..Len(X) |-> i],
              LAMBDA i : ~JsLeq(X[i][f + 1], thr) \/ X[i][f + 1] = thr)

RightIdx(X, f, thr) ==
    SelectSeq([i \in 1..Len(X) |-> i], LAMBDA i : ~JsLeq(X[i][f + 1], thr))

Pick(s, idx) == [k \in 1..Len(idx) |-> s[idx[k]]]

\* gain = parentVar - (L.length / n) * variance(L) - (R.length / n) * variance(R)
Gain(parentVar, L, R, n) ==
    RSub(RSub(parentVar, RMul(<<Len(L), n>>, variance(L))),
         RMul(<<Len(R), n>>, variance(R)))

\* the rejection that forgets the right side
RejectedLeftOnly(L, R, minLeaf) == Len(L) < minLeaf

\* a candidate rejected only when both sides are too small
RejectedBoth(L, R, minLeaf) == Len(L) < minLeaf /\ Len(R) < minLeaf

\* the comparison of the side sizes with minLeaf turned around
RejectedReversed(L, R, minLeaf) == Len(L) > minLeaf \/ Len(R) > minLeaf

\* the minLeaf rejection of one candidate
Rejected(L, R, minLeaf) == Len(L) < minLeaf \/ Len(R) < minLeaf

\* the update test with >= : a later candidate of equal gain replaces the best
BetterOrEqual(gain, bestGain) == ~RLess(gain, bestGain)

\* the update test of the best-gain search
Better(gain, bestGain) == RLess(bestGain, gain)

NoBest == [gain |-> RZero, feat |-> -1, thr |-> 0, leftIdx |-> <<>>, rightIdx |-> <<>>]

\* one iteration of the candidate loop, for feature f and threshold thr
TryCandidate(X, y, minLeaf, parentVar, best, f, thr) ==
    LET Li == LeftIdx(X, f, thr)
        Ri == RightIdx(X, f, thr)
        L  == Pick(y, Li)
        R  == Pick(y, Ri)
        g  == Gain(parentVar, L, R, Len(y))
    IN  IF Rejected(L, R, minLeaf) THEN best
        ELSE IF Better(g, best.gain)
             THEN [gain |-> g, feat |-> f, thr |-> thr, leftIdx |-> Li, rightIdx |-> Ri]
             ELSE best

\* for (const thr of candidates), from the k-th candidate on
RECURSIVE ThresholdLoop(_, _, _, _, _, _, _, _)
ThresholdLoop(X, y, minLeaf, parentVar, f, candidates, k, best) ==
    IF k > Len(candidates) THEN best
    ELSE ThresholdLoop(X, y, minLeaf, parentVar, f, candidates, k + 1,
                       TryCandidate(X, y, minLeaf, parentVar, best, f, candidates[k]))

\* for (let f = 0; f < nFeat; f++), from feature f on
RECURSIVE FeatureLoop(_, _, _, _, _, _)
FeatureLoop(X, y, minLeaf, parentVar, f, best) ==
    IF f >= NFeat(X) THEN best
    ELSE LET after == ThresholdLoop(X, y, minLeaf, parentVar, f, Candidates(X, f), 1, best)
         IN  \* the best split so far is of a feature already visited
             IF after.feat <= f
             THEN FeatureLoop(X, y, minLeaf, parentVar, f + 1, after)
             ELSE NoBest

BestSplit(X, y, minLeaf) == FeatureLoop(X, y, minLeaf, variance(y), 0, NoBest)

\* the stopping rule tested before any split search
\* the depth test taken one level too late
StopDepthLate(n, depth, maxDepth, minLeaf) == n <= minLeaf \/ depth > maxDepth

\* maxDepth = 0 read as "no limit"
StopUnlimitedAtZero(n, depth, maxDepth, minLeaf) ==
    n <= minLeaf \/ (maxDepth > 0 /\ depth >= maxDepth)

Stop(n, depth, maxDepth, minLeaf) == n <= minLeaf \/ depth >= maxDepth

\* the no-useful-split test after the search
NoSplit(best) == RLeqEps(best.gain) \/ best.feat < 0

\* buildCART carrying the ghost identities ids of the rows of X
RECURSIVE buildCARTg(_, _, _, _, _, _)
buildCARTg(ids, X, y, depth, maxDepth, minLeaf) ==
    IF Stop(Len(y), depth, maxDepth, minLeaf) THEN Leaf(ids, y, depth)
    ELSE LET best == BestSplit(X, y, minLeaf)
         IN  IF NoSplit(best) THEN Leaf(ids, y, depth)
             ELSE [kind      |-> "split",
                   feature   |-> best.feat,
                   threshold |-> best.thr,
                   left      |-> buildCARTg(Pick(ids, best.leftIdx), Pick(X, best.leftIdx),
                                            Pick(y, best.leftIdx), depth + 1, maxDepth, minLeaf),
                   right     |-> buildCARTg(Pick(ids, best.rightIdx), Pick(X, best.rightIdx),
                                            Pick(y, best.rightIdx), depth + 1, maxDepth, minLeaf),
                   size      |-> Len(y),
                   depth     |-> depth,
                   rows      |-> ids]

buildCART(X, y, depth, maxDepth, minLeaf) ==
    buildCARTg([i \in 1..Len(y) |-> i], X, y, depth, maxDepth, minLeaf)

\* x[feature]: undefined (compares like NaN) outside the vector
Slot(x, feature) == IF feature + 1 \in 1..Len(x) THEN x[feature + 1] ELSE NaN

\* the traversal of predictTree: the leaf the vector x ends in
RECURSIVE Route(_, _)
Route(node, x) ==
    IF node.kind = "leaf" THEN node
    ELSE IF JsLeq(Slot(x, node.feature), node.threshold)
         THEN Route(node.left, x)
         ELSE Route(node.right, x)

predictTree(node, x) == Route(node, x).value

\* the defaults of buildCART, which fitCART relies on
DefaultMaxDepth == 4
DefaultMinLeaf == 8

\* model === null
NullModel == [isNull |-> TRUE, nFeatures |-> 0, root |-> NoTree]

\* fitCART: the Model { type: "cart", nFeatures, root, predictBatch }
fitCART(X, y) ==
    [isNull |-> FALSE, nFeatures |-> NFeat(X),
     root |-> buildCART(X, y, 0, DefaultMaxDepth, DefaultMinLeaf)]

\* model.predictBatch(XX)
predictBatch(mdl, XX) == [k \in 1..Len(XX) |-> predictTree(mdl.root, XX[k])]

-----------------------------------------------------------------------------
(* Cells, rows and data frames                                              *)
(*                                                                          *)
(* A cell is <<kind, value>>: <<"num", k>> a finite number, <<"inf", 0>> a  *)
(* number that is not finite (coerce keeps Number("Infinity")),             *)
(* <<"date", d>> a valid Date (d = days since 1970-01-01), <<"baddate", 0>> *)
(* a Date object whose time is NaN, <<"str", 0>> a text token and           *)
(* <<"null", 0>> an absent value.                                           *)

\* typeof cell === "number"
IsNumber(cell) == cell[1] \in {"num", "inf"}

NumberOf(cell) == IF cell[1] = "num" THEN cell[2] ELSE PosInf

\* dv instanceof Date && !isNaN(+dv)
IsValidDate(cell) == cell[1] = "date"

\* datetimeKey is undefined
NoKey == "<undefined>"

\* target === null
NullTarget == "<null>"

\* h.toLowerCase() is "datetime", "date" or "time"
IsDatetimeName(h) == h \in {"datetime", "date", "time", "Date", "Time", "DateTime"}

\* header.find(h => ...): the first datetime-like column name
DetectDatetimeKey(columns) ==
    LET found == SelectSeq(columns, IsDatetimeName)
    IN  IF found = <<>> THEN NoKey ELSE found[1]

\* the numeric columns: not the datetime column, and at least
\* max(1, floor(rows.length * 0.5)) of the values are numbers
DetectNumericCols(columns, rows, datetimeKey) ==
    SelectSeq(columns,
              LAMBDA h :
                  /\ ~(datetimeKey # NoKey /\ h = datetimeKey)
                  /\ Cardinality({r \in 1..Len(rows) : IsNumber(rows[r][h])})
                         >= Max(1, Len(rows) \div 2))

\* the DataFrame parseCSV / parseXLSX return for a table of coerced cells
MakeDataFrame(columns, rows) ==
    IF Len(rows) = 0
    THEN [isNull |-> FALSE, columns |-> <<>>, rows |-> <<>>, numericCols |-> <<>>,
          datetimeKey |-> NoKey]
    ELSE [isNull |-> FALSE, columns |-> columns, rows |-> rows,
          numericCols |-> DetectNumericCols(columns, rows, DetectDatetimeKey(columns)),
          datetimeKey |-> DetectDatetimeKey(columns)]

\* df === null
NullDf ==
    [isNull |-> TRUE, columns |-> <<>>, rows |-> <<>>, numericCols |-> <<>>,
     datetimeKey |-> NoKey]

-----------------------------------------------------------------------------
(* Feature assembler: X(t) -> y(t+1)                                        *)

\* const LAGS = [1, 2, 3]
LAGS == <<1, 2, 3>>

\* const USE_DATETIME_FEATURES = true
USE_DATETIME_FEATURES == TRUE

\* sin and cos of 2 * PI * value / period, in thousandths
SinTable(period) ==
    IF period = 7 THEN <<0, 782, 975, 434, -434, -975, -782>>
    ELSE <<0, 500, 866, 1000, 866, 500, 0, -500, -866, -1000, -866, -500>>

CosTable(period) ==
    IF period = 7 THEN <<1000, 623, -223, -901, -901, -223, 623>>
    ELSE <<1000, 866, 500, 0, -500, -866, -1000, -866, -500, 0, 500, 866>>

sincos(value, period) ==
    [sin |-> SinTable(period)[value + 1], cos |-> CosTable(period)[value + 1]]

\* days before the first day of each month of 1970
MonthStarts == <<0, 31, 59, 90, 120, 151, 181, 212, 243, 273, 304, 334>>

\* d.getDay() (1970-01-01 was a Thursday) and d.getMonth()
getDateParts(d) ==
    [weekday |-> (d + 4) % 7,
     month   |-> Cardinality({m \in 1..12 : MonthStarts[m] <= d % 365}) - 1]

\* Math.max(0, ...LAGS)
RECURSIVE MaxOf(_)
MaxOf(s) == IF s = <<>> THEN 0 ELSE Max(Head(s), MaxOf(Tail(s)))

\* exo = allSeries.filter(c => c !== target)
Exo(frame, tgt) == SelectSeq(frame.numericCols, LAMBDA c : c # tgt)

\* the cell df.rows[rowIdx]?.[col] (rowIdx is 0-based), absent when the row
\* or the column does not exist
CellAt(frame, rowIdx, col) ==
    IF rowIdx >= 0 /\ rowIdx < Len(frame.rows) /\ col \in DOMAIN frame.rows[rowIdx + 1]
    THEN frame.rows[rowIdx + 1][col]
    ELSE <<"null", 0>>

\* helper to read a numeric cell (or NaN)
getNum(frame, rowIdx, col) ==
    IF IsNumber(CellAt(frame, rowIdx, col)) THEN NumberOf(CellAt(frame, rowIdx, col)) ELSE NaN

\* target lag, then exo lag, for every lag of lags in order
RECURSIVE LagSlots(_, _, _, _)
LagSlots(frame, tgt, t, lags) ==
    IF lags = <<>> THEN <<>>
    ELSE LET l   == Head(lags)
             exo == Exo(frame, tgt)
         IN  <<getNum(frame, t - l, tgt)>>
             \o [k \in 1..Len(exo) |-> getNum(frame, t - l, exo[k])]
             \o LagSlots(frame, tgt, t, Tail(lags))

\* the four slots pushed when the row has no valid Date
\* a fallback of four NaN: what sincos of an invalid date would give
DateFallbackNaN == <<NaN, NaN, NaN, NaN>>

\* a fallback of two zeros instead of four
DateFallbackShort == <<0, 0>>

DateFallback == <<0, 0, 0, 0>>

\* datetime features at t
DateSlots(frame, t) ==
    IF USE_DATETIME_FEATURES /\ frame.datetimeKey # NoKey
    THEN LET dv == CellAt(frame, t, frame.datetimeKey)
         IN  IF IsValidDate(dv)
             THEN LET parts == getDateParts(dv[2])
                      d     == sincos(parts.weekday, 7)
                      m     == sincos(parts.month, 12)
                  IN  <<d.sin, d.cos, m.sin, m.cos>>
             ELSE DateFallback
    ELSE <<>>

\* compose feature vector for an index t (predicting y at t+1)
makeXAt(frame, tgt, t) ==
    LET exo == Exo(frame, tgt)
    IN  [k \in 1..Len(exo) |-> getNum(frame, t, exo[k])]
        \o LagSlots(frame, tgt, t, LAGS)
        \o DateSlots(frame, t)

\* x.some(v => !Number.isFinite(v))
SomeNotFinite(x) == \E k \in 1..Len(x) : ~isFinite(x[k])

\* the first and last feature row of the dataset loop
FirstT(maxLag) == maxLag

LastT(N) == N - 2

\* whether the loop body pushes row t
\* the emission test without the check of the label
EmitsIgnoringLabel(frame, tgt, t) == ~SomeNotFinite(makeXAt(frame, tgt, t))

Emits(frame, tgt, t) ==
    /\ ~SomeNotFinite(makeXAt(frame, tgt, t))
    /\ isFinite(getNum(frame, t + 1, tgt))

\* Build dataset: the loop for (t = maxLag; t <= N - 2; t++)
RECURSIVE DatasetLoop(_, _, _, _, _)
DatasetLoop(frame, tgt, t, last, acc) ==
    IF t > last THEN acc
    ELSE IF Emits(frame, tgt, t)
         THEN DatasetLoop(frame, tgt, t + 1, last,
                          [X |-> Append(acc.X, makeXAt(frame, tgt, t)),
                           y |-> Append(acc.y, getNum(frame, t + 1, tgt))])
         ELSE DatasetLoop(frame, tgt, t + 1, last, acc)

\* featNames; a name s(t-l) is <<s, l>>, s(t) is <<s, 0>>
RECURSIVE LagNames(_, _, _)
LagNames(frame, tgt, lags) ==
    IF lags = <<>> THEN <<>>
    ELSE LET exo == Exo(frame, tgt)
         IN  <<<<tgt, Head(lags)>>>>
             \o [k \in 1..Len(exo) |-> <<exo[k], Head(lags)>>]
             \o LagNames(frame, tgt, Tail(lags))

FeatNames(frame, tgt) ==
    LET exo == Exo(frame, tgt)
    IN  [k \in 1..Len(exo) |-> <<exo[k], 0>>]
        \o LagNames(frame, tgt, LAGS)
        \o (IF USE_DATETIME_FEATURES /\ frame.datetimeKey # NoKey
            THEN <<<<"dow_sin", 0>>, <<"dow_cos", 0>>, <<"mon_sin", 0>>, <<"mon_cos", 0>>>>
            ELSE <<>>)

\* !df || !target
NoInput(frame, tgt) == frame.isNull \/ tgt = NullTarget

\* the memo Xy (X, y, featNames, maxLag)
Xy(frame, tgt) ==
    IF NoInput(frame, tgt)
    THEN [X |-> <<>>, y |-> <<>>, featNames |-> <<>>, maxLag |-> 0]
    ELSE LET loop == DatasetLoop(frame, tgt, FirstT(MaxOf(LAGS)), LastT(Len(frame.rows)),
                                 [X |-> <<>>, y |-> <<>>])
         IN  [X |-> loop.X, y |-> loop.y, featNames |-> FeatNames(frame, tgt),
              maxLag |-> MaxOf(LAGS)]

\* Xy.makeNextX(): the feature vector at the last row t = N - 1
makeNextX(frame, tgt) ==
    IF NoInput(frame, tgt) THEN <<>>
    ELSE makeXAt(frame, tgt, Len(frame.rows) - 1)

\* rows with a valid timestamp, ascending by timestamp (buildSupervised)
SortedValidRows(frame) ==
    SortSeq(SelectSeq(frame.rows, LAMBDA r : IsValidDate(r[frame.datetimeKey])),
            LAMBDA a, b : a[frame.datetimeKey][2] < b[frame.datetimeKey][2])

-----------------------------------------------------------------------------
(* Harness for buildCART / predictTree as pure functions                    *)

MaxRows == 8
MaxChanges == 1

Labels == {0, 1}
DepthArgs == 0..3
MinLeafArgs == 0..3

\* feature columns: the value of a feature at row i (1-based)
Pattern(p, i) ==
    CASE p = "index"  -> i
      [] p = "parity" -> (i - 1) % 2
      [] p = "stride" -> (3 * (i - 1)) % 5
      [] p = "pairs"  -> (i - 1) \div 2

Designs == {<<>>, <<"index">>, <<"pairs">>, <<"parity", "stride">>}

DesignMatrix(d, n) == [i \in 1..n |-> [f \in 1..Len(d) |-> Pattern(d[f], i)]]

\* label sequences whose value changes at most MaxChanges times along the rows
Changes(y) == Cardinality({i \in 1..(Len(y) - 1) : y[i] # y[i + 1]})

LabelSeqs(n) == {y \in [1..n -> Labels] : Changes(y) <= MaxChanges}

\* the vectors predictTree is asked about: the first and last training rows,
\* a vector outside the training range, and the first training row with its
\* last slot missing or with one slot too many
Queries(X) ==
    IF Len(X) = 0 THEN {<<>>, <<0>>}
    ELSE {X[1], X[Len(X)], [f \in 1..Len(X[1]) |-> MaxRows + 1],
          SubSeq(X[1], 1, Len(X[1]) - 1), X[1] \o <<0>>}

CartInit ==
    /\ \E n \in 0..MaxRows, d \in Designs :
          /\ trX = DesignMatrix(d, n)
          /\ trY \in LabelSeqs(n)
    /\ trMaxDepth = 0
    /\ trMinLeaf = 0
    /\ trRoot = NoTree
    /\ trQuery = <<>>
    /\ trPred = RZero
    /\ trPc = "input"

BuildTree(maxDepth, minLeaf) ==
    /\ trPc = "input"
    /\ trPc' = "built"
    /\ trMaxDepth' = maxDepth
    /\ trMinLeaf' = minLeaf
    /\ trRoot' = buildCART(trX, trY, 0, maxDepth, minLeaf)
    /\ UNCHANGED <<trX, trY, trQuery, trPred>>
    /\ UNCHANGED <<xyVars, uiVars>>

PredictVector(x) ==
    /\ trPc = "built"
    /\ trPc' = "predicted"
    /\ trQuery' = x
    /\ trPred' = predictTree(trRoot, x)
    /\ UNCHANGED <<trX, trY, trMaxDepth, trMinLeaf, trRoot>>
    /\ UNCHANGED <<xyVars, uiVars>>

CartNext ==
    \/ \E d \in DepthArgs, m \in MinLeafArgs : BuildTree(d, m)
    \/ \E x \in Queries(trX) : PredictVector(x)

-----------------------------------------------------------------------------
(* Harness for the feature assembler as a pure function of (frame, tgt)     *)

MaxDfRows == 7
MaxHoles == 1

\* column layouts of the imported table
Shapes == {<<"a">>, <<"a", "b">>, <<"datetime", "a">>, <<"date", "a", "b">>}

\* the order of the file's rows: position p (0-based) holds the observation
\* with chronological index RowOrder(o, N, p)
RowOrder(o, N, p) ==
    CASE o = "asc"  -> p
      [] o = "desc" -> N - 1 - p
      [] o = "swap" -> IF N >= 2 /\ p >= N - 2 THEN (2 * N - 3) - p ELSE p

Orders(shape) == IF DetectDatetimeKey(shape) = NoKey THEN {"asc"} ELSE {"asc", "desc", "swap"}

\* the cell of a complete table: timestamps 10 days apart, series values
CleanCell(col, c) ==
    IF IsDatetimeName(col) THEN <<"date", 10 * c>>
    ELSE IF col = "a" THEN <<"num", c>> ELSE <<"num", 2 * c + 1>>

\* what a defective cell holds, by column and variant
HoleCell(col, variant) ==
    IF IsDatetimeName(col)
    THEN (IF variant = 1 THEN <<"null", 0>> ELSE <<"baddate", 0>>)
    ELSE (IF variant = 1 THEN <<"null", 0>> ELSE <<"inf", 0>>)

\* a hole is <<position, column index, variant>>
HoleSets(shape, N) ==
    UNION {[1..k -> (0..(N - 1)) \X (1..Len(shape)) \X {1, 2}] : k \in 0..MaxHoles}

TableRows(shape, N, o, holes) ==
    [p \in 1..N |->
        [col \in {shape[k] : k \in 1..Len(shape)} |->
            LET hit == {h \in 1..Len(holes) :
                           holes[h][1] = p - 1 /\ shape[holes[h][2]] = col}
            IN  IF hit = {} THEN CleanCell(col, RowOrder(o, N, p - 1))
                ELSE HoleCell(col, holes[CHOOSE h \in hit : \A g \in hit : h <= g][3])]]

TargetsOf(frame) ==
    IF frame.numericCols = <<>> THEN {NullTarget}
    ELSE {frame.numericCols[k] : k \in 1..Len(frame.numericCols)}

EmptyXy == [X |-> <<>>, y |-> <<>>, featNames |-> <<>>, maxLag |-> 0]

XyIdle ==
    /\ xyDf = NullDf
    /\ xyTarget = NullTarget
    /\ xyOut = EmptyXy
    /\ xyNext = <<>>
    /\ xyPc = "idle"

CartIdle ==
    /\ trX = <<>>
    /\ trY = <<>>
    /\ trMaxDepth = 0
    /\ trMinLeaf = 0
    /\ trRoot = NoTree
    /\ trQuery = <<>>
    /\ trPred = RZero
    /\ trPc = "idle"

XyInit ==
    /\ \E shape \in Shapes, N \in 0..MaxDfRows :
          \E o \in Orders(shape), holes \in HoleSets(shape, N) :
              xyDf = MakeDataFrame(shape, TableRows(shape, N, o, holes))
    /\ xyTarget \in TargetsOf(xyDf)
    /\ xyOut = EmptyXy
    /\ xyNext = <<>>
    /\ xyPc = "input"

Assemble ==
    /\ xyPc = "input"
    /\ xyPc' = "assembled"
    /\ xyOut' = Xy(xyDf, xyTarget)
    /\ UNCHANGED <<xyDf, xyTarget, xyNext>>
    /\ UNCHANGED <<cartVars, uiVars>>

NextVector ==
    /\ xyPc = "assembled"
    /\ xyPc' = "done"
    /\ xyNext' = makeNextX(xyDf, xyTarget)
    /\ UNCHANGED <<xyDf, xyTarget, xyOut>>
    /\ UNCHANGED <<cartVars, uiVars>>

XyNext == Assemble \/ NextVector


-----------------------------------------------------------------------------
(* HomeScreen: import, series toggles, target chooser, train, predict       *)

\* if (X.length < 20): the floor of train
MinTrainRows == 20

\* prediction === null, and a prediction holding the number v
NullPrediction == [isNull |-> TRUE, value |-> RZero]

SomePrediction(v) == [isNull |-> FALSE, value |-> v]

\* const series = df?.numericCols ?? []
Series(d) == IF d.isNull THEN <<>> ELSE d.numericCols

\* default visibility on: every numeric column of the parsed frame
DefaultVisible(parsed) ==
    [c \in {parsed.numericCols[k] : k \in 1..Len(parsed.numericCols)} |-> TRUE]

\* parsed.numericCols[0] ?? null
FirstNumeric(parsed) ==
    IF parsed.numericCols = <<>> THEN NullTarget ELSE parsed.numericCols[1]

\* the file name ends with .csv, .xlsx or .xls
Supported(file) == file.ext \in {"csv", "xlsx", "xls"}

\* the DataFrame parseCSV / parseXLSX make of the file's table
Parsed(file) == MakeDataFrame(file.shape, TableRows(file.shape, file.rows, "asc", file.holes))

\* the files the user can pick: complete tables of the longest size train
\* refuses and the shortest it accepts, a table whose last row lacks b, a
\* table without numeric column, a file that is not a table, and a workbook
\* whose parse throws
LongRows == MinTrainRows + MaxOf(LAGS) + 1

Files ==
    {[ext |-> "csv", shape |-> <<"date", "a", "b">>, rows |-> LongRows, holes |-> <<>>,
      throws |-> FALSE],
     [ext |-> "csv", shape |-> <<"date", "a", "b">>, rows |-> LongRows - 1, holes |-> <<>>,
      throws |-> FALSE],
     [ext |-> "xlsx", shape |-> <<"date", "a", "b">>, rows |-> LongRows,
      holes |-> <<<<LongRows - 1, 3, 1>>>>, throws |-> FALSE],
     [ext |-> "csv", shape |-> <<"a">>, rows |-> 1, holes |-> <<<<0, 1, 1>>>>,
      throws |-> FALSE],
     [ext |-> "txt", shape |-> <<"a">>, rows |-> 0, holes |-> <<>>, throws |-> FALSE],
     [ext |-> "xlsx", shape |-> <<"a">>, rows |-> 0, holes |-> <<>>, throws |-> TRUE]}

NoFile == [ext |-> "", shape |-> <<>>, rows |-> 0, holes |-> <<>>, throws |-> FALSE]

MaxPending == 2

\* every frame an import can load
Frames == {Parsed(file) : file \in {f \in Files : Supported(f) /\ ~f.throws}}

\* X.length < 20
\* the floor taken one too high: a set of exactly 20 examples is refused
TooFewRowsInclusive(X) == Len(X) <= MinTrainRows

TooFewRows(X) == Len(X) < MinTrainRows

\* the values the handlers compute from (df, target), evaluated once per
\* frame and target as useMemo does: the memo Xy, the vector of
\* Xy.makeNextX() and the Model fitCART(X, y) returns when train accepts X
MemoTable ==
    {[frame |-> p[1], tgt |-> p[2], xy |-> Xy(p[1], p[2]), next |-> makeNextX(p[1], p[2]),
      fit |-> IF TooFewRows(Xy(p[1], p[2]).X) THEN NullModel
              ELSE fitCART(Xy(p[1], p[2]).X, Xy(p[1], p[2]).y)] :
        p \in {q \in Frames \X {"a", "b"} : q[2] \in TargetsOf(q[1])}}

Memo(frame, tgt) == CHOOSE r \in MemoTable : r.frame = frame /\ r.tgt = tgt

UiInit ==
    /\ df = NullDf
    /\ visible = <<>>
    /\ target = NullTarget
    /\ model = NullModel
    /\ prediction = NullPrediction
    /\ status = <<"">>
    /\ pending = <<>>
    /\ lastPick = NoFile

\* onFileChange up to its await: an unsupported file ends the call at once,
\* any other suspends it with the status "Parsing..."
StartImport(file) ==
    /\ Len(pending) < MaxPending
    /\ lastPick' = file
    /\ IF Supported(file)
       THEN /\ status' = <<"Parsing...">>
            /\ pending' = Append(pending, file)
       ELSE /\ status' = <<"Unsupported file type. Please select CSV/XLSX.">>
            /\ pending' = pending
    /\ UNCHANGED <<df, visible, target, model, prediction>>
    /\ UNCHANGED <<cartVars, xyVars>>

Remove(seq, k) == [j \in 1..(Len(seq) - 1) |-> IF j < k THEN seq[j] ELSE seq[j + 1]]

\* the state updates without setModel(null)
LoadedKeepingModel(parsed) ==
    /\ df' = parsed
    /\ visible' = DefaultVisible(parsed)
    /\ target' = FirstNumeric(parsed)
    /\ model' = model
    /\ prediction' = NullPrediction
    /\ status' = <<"Loaded.">>

\* the state updates after a parse that returned
Loaded(parsed) ==
    /\ df' = parsed
    /\ visible' = DefaultVisible(parsed)
    /\ target' = FirstNumeric(parsed)
    /\ model' = NullModel
    /\ prediction' = NullPrediction
    /\ status' = <<"Loaded.">>

\* a catch block that also discards the model
ParseErrorDiscardingModel ==
    /\ status' = <<"Parse error">>
    /\ model' = NullModel
    /\ UNCHANGED <<df, visible, target, prediction>>

\* the catch block
ParseError ==
    /\ status' = <<"Parse error">>
    /\ UNCHANGED <<df, visible, target, model, prediction>>

\* onFileChange after its await, for the k-th suspended call
FinishImport(k) ==
    /\ k \in 1..Len(pending)
    /\ pending' = Remove(pending, k)
    /\ IF pending[k].throws THEN ParseError ELSE Loaded(Parsed(pending[k]))
    /\ UNCHANGED lastPick
    /\ UNCHANGED <<cartVars, xyVars>>

\* setVisible(prev => ({ ...prev, [key]: !prev[key] }))
Toggled(prev, key) ==
    [c \in (DOMAIN prev) \cup {key} |->
        IF c = key THEN (IF key \in DOMAIN prev THEN ~prev[key] ELSE TRUE) ELSE prev[c]]

toggleSeries(key) ==
    /\ \E k \in 1..Len(Series(df)) : Series(df)[k] = key
    /\ visible' = Toggled(visible, key)
    /\ UNCHANGED <<df, target, model, prediction, status, pending, lastPick>>
    /\ UNCHANGED <<cartVars, xyVars>>

\* what pressing a chip of the target chooser does to the model
ModelAfterSetTarget(m) == m

\* the target chooser: onPress={() => setTarget(s)} for s of series
setTarget(s) ==
    /\ \E k \in 1..Len(Series(df)) : Series(df)[k] = s
    /\ target' = s
    /\ model' = ModelAfterSetTarget(model)
    /\ UNCHANGED <<df, visible, prediction, status, pending, lastPick>>
    /\ UNCHANGED <<cartVars, xyVars>>

\* train without setPrediction(null)
trainKeepingPrediction ==
    /\ IF NoInput(df, target)
       THEN /\ status' = <<"Load data and choose a target first.">>
            /\ UNCHANGED <<model, prediction>>
       ELSE IF TooFewRows(Memo(df, target).xy.X)
            THEN /\ status' = <<"Not enough rows to train (need >= 20 after cleaning).">>
                 /\ UNCHANGED <<model, prediction>>
            ELSE /\ model' = Memo(df, target).fit
                 /\ prediction' = prediction
                 /\ status' = <<"Trained CART", Memo(df, target).fit.nFeatures,
                                Len(Memo(df, target).xy.X)>>
    /\ UNCHANGED <<df, visible, target, pending, lastPick>>
    /\ UNCHANGED <<cartVars, xyVars>>

train ==
    /\ IF NoInput(df, target)
       THEN /\ status' = <<"Load data and choose a target first.">>
            /\ UNCHANGED <<model, prediction>>
       ELSE IF TooFewRows(Memo(df, target).xy.X)
            THEN /\ status' = <<"Not enough rows to train (need >= 20 after cleaning).">>
                 /\ UNCHANGED <<model, prediction>>
            ELSE /\ model' = Memo(df, target).fit
                 /\ prediction' = NullPrediction
                 /\ status' = <<"Trained CART", Memo(df, target).fit.nFeatures,
                                Len(Memo(df, target).xy.X)>>
    /\ UNCHANGED <<df, visible, target, pending, lastPick>>
    /\ UNCHANGED <<cartVars, xyVars>>

\* the guard without its finiteness test
NoNextVectorEmptyOnly(xNext) == Len(xNext) = 0

\* !xNext.length || xNext.some(v => !Number.isFinite(v))
NoNextVector(xNext) == Len(xNext) = 0 \/ SomeNotFinite(xNext)

predict ==
    /\ IF NoInput(df, target) \/ model.isNull
       THEN /\ status' = <<"Train a model first.">>
            /\ UNCHANGED prediction
       ELSE IF NoNextVector(Memo(df, target).next)
            THEN /\ status' = <<"Not enough history to build features for t+1. Add more rows.">>
                 /\ UNCHANGED prediction
            ELSE /\ prediction' = SomePrediction(predictBatch(model, <<Memo(df, target).next>>)[1])
                 /\ status' = <<"Predicted next 1 step", target>>
    /\ UNCHANGED <<df, visible, target, model, pending, lastPick>>
    /\ UNCHANGED <<cartVars, xyVars>>

Next ==
    \/ \E file \in Files : StartImport(file)
    \/ \E k \in 1..MaxPending : FinishImport(k)
    \/ \E key \in {"a", "b"} : toggleSeries(key)
    \/ \E s \in {"a", "b"} : setTarget(s)
    \/ train
    \/ predict

-----------------------------------------------------------------------------
(* Specifications                                                           *)

Init == UiInit /\ CartIdle /\ XyIdle

Spec == Init /\ [][Next]_vars

InitXy == XyInit /\ CartIdle /\ UiInit

SpecXy == InitXy /\ [][XyNext]_vars

InitCART == CartInit /\ XyIdle /\ UiInit

SpecCART == InitCART /\ [][CartNext]_vars

\* buildCART on one feature column with repeated values: the column is a
\* staircase that starts at 0 and rises by one after each row of steps, and
\* the label of a row is its feature value
MaxColumnRows == 10
MaxSteps == 2

Staircase(n, steps) == [i \in 1..n |-> <<Cardinality({st \in steps : st < i})>>]

StepSets(n) == {S \in SUBSET (1..(n - 1)) : Cardinality(S) <= MaxSteps}

ColumnInit ==
    /\ \E n \in 1..MaxColumnRows : \E steps \in StepSets(n) :
          /\ trX = Staircase(n, steps)
          /\ trY = [i \in 1..n |-> Staircase(n, steps)[i][1]]
    /\ trMaxDepth = 0
    /\ trMinLeaf = 0
    /\ trRoot = NoTree
    /\ trQuery = <<>>
    /\ trPred = RZero
    /\ trPc = "input"

InitColumn == ColumnInit /\ XyIdle /\ UiInit

SpecColumn == InitColumn /\ [][CartNext]_vars

-----------------------------------------------------------------------------
(* Properties                                                               *)

RECURSIVE SplitCount(_)
SplitCount(node) ==
    IF node.kind = "leaf" THEN 0
    ELSE 1 + SplitCount(node.left) + SplitCount(node.right)

RECURSIVE Leaves(_)
Leaves(node) ==
    IF node.kind = "leaf" THEN {node} ELSE Leaves(node.left) \cup Leaves(node.right)

Range(seq) == {seq[k] : k \in 1..Len(seq)}

SelectTargetStep == \E s \in {"a", "b"} : setTarget(s)

\* C1: every step of the target chooser (setTarget) leaves no model held.
C1_SelectTargetInvalidatesModel == [][SelectTargetStep => model'.isNull]_vars

\* C2: train has a floor of exactly 20 assembled examples: with 19 or fewer
\* it reports that it cannot train and leaves the model (and the prediction)
\* untouched; with a dataset, a target and 20 or more examples it holds
\* afterwards a model trained on exactly these examples.
C2_TrainFloor ==
    [][train =>
          LET n == Len(Memo(df, target).xy.X)
          IN  IF NoInput(df, target)
              THEN /\ model' = model
                   /\ prediction' = prediction
                   /\ status' = <<"Load data and choose a target first.">>
              ELSE /\ n <= 19 =>
                        /\ model' = model
                        /\ prediction' = prediction
                        /\ status' = <<"Not enough rows to train (need >= 20 after cleaning).">>
                   /\ n >= 20 =>
                        /\ ~model'.isNull
                        /\ model'.nFeatures = Len(Memo(df, target).xy.X[1])
                        /\ model'.root.size = n
                        /\ model'.root.rows = [i \in 1..n |-> i]
                        /\ status' = <<"Trained CART", model'.nFeatures, n>>]_vars

\* a model is held and train has just refused a set of exactly 19 examples
C2_Witness ==
    /\ status = <<"Not enough rows to train (need >= 20 after cleaning).">>
    /\ ~model.isNull
    /\ Len(Memo(df, target).xy.X) = 19

\* the next vector: the feature layout at the last row t = N - 1
NextVectorOf(frame, tgt) == makeXAt(frame, tgt, Len(frame.rows) - 1)

CanPredict ==
    /\ ~df.isNull
    /\ target # NullTarget
    /\ ~model.isNull
    /\ Len(NextVectorOf(df, target)) > 0
    /\ \A k \in 1..Len(NextVectorOf(df, target)) : isFinite(NextVectorOf(df, target)[k])

\* C3: predict stores a forecast only when a model is held and every slot of
\* the next vector is finite, and the forecast is the model's value for that
\* vector; otherwise it reports that it cannot proceed and leaves the stored
\* prediction and the model unchanged.
C3_PredictNeedsModelAndHistory ==
    [][predict =>
          /\ model' = model
          /\ IF CanPredict
             THEN /\ prediction' = SomePrediction(predictTree(model.root, NextVectorOf(df, target)))
                  /\ status' = <<"Predicted next 1 step", target>>
             ELSE /\ prediction' = prediction
                  /\ status' \in {<<"Train a model first.">>,
                                  <<"Not enough history to build features for t+1. Add more rows.">>}
                  /\ (model.isNull => status' = <<"Train a model first.">>)]_vars

\* a model is held and predict has just refused a next vector with a
\* non-finite slot
C3_Witness ==
    /\ status = <<"Not enough history to build features for t+1. Add more rows.">>
    /\ ~model.isNull
    /\ \E k \in 1..Len(NextVectorOf(df, target)) : ~isFinite(NextVectorOf(df, target)[k])

\* C4: with a timestamp column, the examples are those of the rows that have a
\* valid timestamp, sorted ascending by timestamp.
C4_SortedByTimestamp ==
    xyPc # "input" /\ xyDf.datetimeKey # NoKey =>
        LET sorted == [xyDf EXCEPT !.rows = SortedValidRows(xyDf)]
        IN  /\ xyOut.X = Xy(sorted, xyTarget).X
            /\ xyOut.y = Xy(sorted, xyTarget).y

\* the cell at row r (0-based) and column c is a finite number
FiniteCell(frame, r, c) ==
    /\ r >= 0
    /\ r < Len(frame.rows)
    /\ frame.rows[r + 1][c][1] = "num"

\* the rows t that must yield an example
ExampleRows(frame, tgt) ==
    {t \in 0..(Len(frame.rows) - 1) :
        /\ 3 <= t
        /\ t <= Len(frame.rows) - 2
        /\ \A c \in Range(frame.numericCols) \ {tgt} : FiniteCell(frame, t, c)
        /\ \A l \in {1, 2, 3} : \A c \in Range(frame.numericCols) : FiniteCell(frame, t - l, c)
        /\ FiniteCell(frame, t + 1, tgt)}

\* C5: the examples are, in ascending t, exactly the rows t with
\* maxLag <= t <= N - 2 whose current exogenous cells, lagged cells and next
\* target cell are all finite numbers; each label is the target at t + 1.
C5_ExamplesExactly ==
    xyPc # "input" /\ xyTarget # NullTarget =>
        LET ts == Ascending(ExampleRows(xyDf, xyTarget))
        IN  /\ xyOut.maxLag = 3
            /\ Len(xyOut.X) = Len(ts)
            /\ Len(xyOut.y) = Len(ts)
            /\ \A k \in 1..Len(ts) :
                  /\ xyOut.X[k] = makeXAt(xyDf, xyTarget, ts[k])
                  /\ xyOut.y[k] = xyDf.rows[ts[k] + 2][xyTarget][2]

\* some row in range is dropped for a missing value while another is emitted
C5_Witness ==
    /\ xyPc # "input"
    /\ Len(xyOut.X) >= 1
    /\ Len(xyOut.X) < Len(xyDf.rows) - 4
    /\ Len(xyDf.numericCols) = 2

Width(frame, tgt) ==
    Len(Exo(frame, tgt)) + Len(LAGS) * (1 + Len(Exo(frame, tgt)))
        + (IF USE_DATETIME_FEATURES /\ frame.datetimeKey # NoKey THEN 4 ELSE 0)

\* C6: every example vector, the next vector and the list of feature names
\* have the length |exo| + |lags| * (1 + |exo|) + (4 with a timestamp column),
\* whichever numeric column is the target.
C6_WidthConsistent ==
    xyPc # "input" /\ xyTarget # NullTarget =>
        /\ \A k \in 1..Len(xyOut.X) : Len(xyOut.X[k]) = Width(xyDf, xyTarget)
        /\ Len(xyOut.featNames) = Width(xyDf, xyTarget)
        /\ xyPc = "done" => Len(xyNext) = Width(xyDf, xyTarget)
        /\ \A other \in Range(xyDf.numericCols) :
              /\ Width(xyDf, other) = Width(xyDf, xyTarget)
              /\ Len(makeNextX(xyDf, other)) = Len(makeNextX(xyDf, xyTarget))

\* examples and a next vector of 11 slots, the last row without a valid date
C6_Witness ==
    /\ xyPc = "done"
    /\ Len(xyOut.X) >= 2
    /\ Len(xyNext) = 11
    /\ Len(xyOut.X[1]) = 11
    /\ ~IsValidDate(xyDf.rows[Len(xyDf.rows)][xyDf.datetimeKey])

\* the training rows predictTree routes to the leaf
RoutedTo(leaf) == {i \in 1..Len(trX) : Route(trRoot, trX[i]) = leaf}

\* C7: for every leaf of a trained tree, the training rows predictTree routes
\* to it are exactly the rows it was built from, its size is their number and
\* its value is the mean of their labels.
C7_LeafMean ==
    trPc # "input" /\ Len(trY) >= 1 =>
        \A leaf \in Leaves(trRoot) :
            /\ RoutedTo(leaf) = Range(leaf.rows)
            /\ leaf.size = Cardinality(RoutedTo(leaf))
            /\ Len(leaf.rows) = leaf.size
            /\ leaf.size >= 1
            /\ leaf.value[1] * leaf.size = leaf.value[2] * Sum([k \in 1..leaf.size |-> trY[leaf.rows[k]]])

\* a tree with at least three leaves whose labels are not all equal
C7_Witness ==
    /\ trPc = "built"
    /\ Cardinality(Leaves(trRoot)) >= 3
    /\ \E leaf \in Leaves(trRoot) : leaf.value[2] > 1

ConstantLabels == Len(trY) >= 1 /\ \A i \in 1..Len(trY) : trY[i] = trY[1]

\* C8: if all labels are identical the tree is a single leaf for every
\* maxDepth and minLeaf, and predictTree returns that label for any vector.
C8_ConstantLabels ==
    trPc # "input" /\ ConstantLabels =>
        /\ trRoot.kind = "leaf"
        /\ trRoot.value = <<trY[1], 1>>
        /\ trPc = "predicted" => trPred = <<trY[1], 1>>

\* constant non-zero labels on varied features, with the split search run
C8_Witness ==
    /\ trPc = "predicted"
    /\ ConstantLabels
    /\ trY[1] # 0
    /\ Len(trY) > 2 * trMinLeaf
    /\ trMinLeaf >= 1
    /\ trMaxDepth >= 2
    /\ NFeat(trX) = 2
    /\ trQuery \notin Range(trX)

\* C9: for the same examples and minLeaf, a smaller maxDepth never gives more
\* split nodes.
C9_MaxDepthMonotone ==
    trPc = "built" =>
        \A d \in DepthArgs :
            d < trMaxDepth =>
                SplitCount(buildCART(trX, trY, 0, d, trMinLeaf)) <= SplitCount(trRoot)

\* the larger maxDepth gives strictly more split nodes
C9_Witness ==
    /\ trPc = "built"
    /\ trMaxDepth = 3
    /\ SplitCount(buildCART(trX, trY, 0, 2, trMinLeaf)) < SplitCount(trRoot)
    /\ SplitCount(buildCART(trX, trY, 0, 1, trMinLeaf))
           < SplitCount(buildCART(trX, trY, 0, 2, trMinLeaf))

\* C10 as stated: for the same examples and maxDepth, a larger minLeaf never
\* gives more split nodes.
C10_MinLeafMonotone ==
    trPc = "built" =>
        \A m \in MinLeafArgs :
            m < trMinLeaf =>
                SplitCount(trRoot) <= SplitCount(buildCART(trX, trY, 0, trMaxDepth, m))

\* C10 amended: if the tree built with the larger minLeaf splits its root, so
\* does the tree built with a smaller minLeaf, and with maxDepth <= 1 the
\* larger minLeaf never gives more split nodes.
C10_MinLeafRootMonotone ==
    trPc = "built" =>
        \A m \in MinLeafArgs :
            m < trMinLeaf =>
                LET smaller == buildCART(trX, trY, 0, trMaxDepth, m)
                IN  /\ trRoot.kind = "split" => smaller.kind = "split"
                    /\ trMaxDepth <= 1 => SplitCount(trRoot) <= SplitCount(smaller)

\* both trees split the root, at different places
C10_Witness ==
    /\ trPc = "built"
    /\ trMinLeaf = 2
    /\ trRoot.kind = "split"
    /\ LET smaller == buildCART(trX, trY, 0, trMaxDepth, 1)
       IN  /\ smaller.kind = "split"
           /\ <<smaller.feature, smaller.threshold>> # <<trRoot.feature, trRoot.threshold>>

\* the outcome of a call that throws; no rational has the denominator 0
Thrown == <<0, 0>>

\* C11: predictTree on a vector whose width differs from the width of the
\* training vectors throws instead of returning a number.
C11_WidthMismatchSignalled ==
    trPc = "predicted" /\ Len(trQuery) # NFeat(trX) => trPred = Thrown

\* C12: on fewer than 2 * minLeaf examples (zero included) buildCART returns
\* a single leaf over all the examples: by the stopping rule when
\* n <= minLeaf, and because the search accepts no candidate when
\* minLeaf < n < 2 * minLeaf.
C12_FewerThanTwoMinLeaf ==
    trPc = "built" /\ Len(trY) < 2 * trMinLeaf =>
        /\ trRoot.kind = "leaf"
        /\ trRoot.size = Len(trY)
        /\ trRoot.depth = 0
        /\ trRoot.value[1] * Max(1, Len(trY)) = trRoot.value[2] * Sum(trY)
        /\ Len(trY) <= trMinLeaf => Stop(Len(trY), 0, trMaxDepth, trMinLeaf)
        /\ Len(trY) > trMinLeaf => BestSplit(trX, trY, trMinLeaf).feat = -1

\* five rows with two different labels and a feature, minLeaf 3, and the
\* split search run
C12_Witness ==
    /\ trPc = "built"
    /\ Len(trY) = 5
    /\ trMinLeaf = 3
    /\ trMaxDepth >= 1
    /\ NFeat(trX) >= 1
    /\ trY[1] # trY[5]
    /\ trRoot.kind = "leaf"

\* every node of a tree
RECURSIVE Nodes(_)
Nodes(node) ==
    IF node.kind = "leaf" THEN {node}
    ELSE {node} \cup Nodes(node.left) \cup Nodes(node.right)

\* C13: a node with at most minLeaf rows or at depth >= maxDepth is a leaf:
\* every split node has depth < maxDepth and more than minLeaf rows, no node
\* is deeper than maxDepth, the root has depth 0 and children are one level
\* below their parent.
C13_StoppingRule ==
    trPc = "built" =>
        /\ trRoot.depth = 0
        /\ Stop(Len(trY), 0, trMaxDepth, trMinLeaf) => trRoot.kind = "leaf"
        /\ \A nd \in Nodes(trRoot) :
              /\ nd.depth <= trMaxDepth
              /\ nd.kind = "split" =>
                    /\ nd.depth < trMaxDepth
                    /\ nd.size > trMinLeaf
                    /\ nd.left.depth = nd.depth + 1
                    /\ nd.right.depth = nd.depth + 1

\* a leaf at depth maxDepth >= 2 that has more than minLeaf rows and labels
\* that differ: only the depth test stopped it
C13_Witness ==
    /\ trPc = "built"
    /\ trMaxDepth >= 2
    /\ \E leaf \in Leaves(trRoot) :
          /\ leaf.depth = trMaxDepth
          /\ leaf.size > trMinLeaf
          /\ leaf.size >= 2
          /\ leaf.value[2] > 1

\* C14: both children of every split node hold at least minLeaf rows (and
\* together the rows of the node), so every leaf of a tree that has a split
\* has at least minLeaf rows.
C14_ChildrenAtLeastMinLeaf ==
    trPc = "built" =>
        /\ \A nd \in Nodes(trRoot) :
              nd.kind = "split" =>
                  /\ nd.left.size >= trMinLeaf
                  /\ nd.right.size >= trMinLeaf
                  /\ Len(nd.left.rows) = nd.left.size
                  /\ Len(nd.right.rows) = nd.right.size
                  /\ nd.left.size + nd.right.size = nd.size
        /\ trRoot.kind = "split" =>
              \A leaf \in Leaves(trRoot) : leaf.size >= trMinLeaf

\* a tree with minLeaf >= 2 that has a leaf of exactly minLeaf rows, where
\* minLeaf 1 would have split the root elsewhere
C14_Witness ==
    /\ trPc = "built"
    /\ trMinLeaf >= 2
    /\ trRoot.kind = "split"
    /\ \E leaf \in Leaves(trRoot) : leaf.size = trMinLeaf
    /\ LET free == BestSplit(trX, trY, 1)
       IN  <<free.feat, free.thr>> # <<trRoot.feature, trRoot.threshold>>

\* the candidates <<feature, threshold>> of a node over rows X, labels y that
\* the minLeaf rejection lets through
ValidCandidates(X, y, minLeaf) ==
    {c \in UNION {{<<f, thr>> : thr \in Range(Candidates(X, f))} : f \in 0..(NFeat(X) - 1)} :
        ~Rejected(Pick(y, LeftIdx(X, c[1], c[2])), Pick(y, RightIdx(X, c[1], c[2])), minLeaf)}

\* the gain of the candidate c at that node
GainOf(X, y, c) ==
    Gain(variance(y), Pick(y, LeftIdx(X, c[1], c[2])), Pick(y, RightIdx(X, c[1], c[2])), Len(y))

\* the split of node nd is the valid candidate of maximum gain and, among
\* those of maximum gain, of lowest feature index, then lowest threshold
ChosenIsFirstBest(nd) ==
    LET X      == Pick(trX, nd.rows)
        y      == Pick(trY, nd.rows)
        chosen == <<nd.feature, nd.threshold>>
    IN  /\ chosen \in ValidCandidates(X, y, trMinLeaf)
        /\ \A c \in ValidCandidates(X, y, trMinLeaf) :
              /\ ~RLess(GainOf(X, y, chosen), GainOf(X, y, c))
              /\ GainOf(X, y, c) = GainOf(X, y, chosen) =>
                    \/ c[1] > chosen[1]
                    \/ c[1] = chosen[1] /\ c[2] >= chosen[2]

\* C15: at every split node the chosen (feature, threshold) has the maximum
\* gain among the valid candidates and, among the candidates of maximum
\* gain, the lowest feature index and then the lowest threshold.
C15_TieBreak ==
    trPc = "built" =>
        \A nd \in Nodes(trRoot) : nd.kind = "split" => ChosenIsFirstBest(nd)

\* a split node where another valid candidate has the same, maximum gain
C15_Witness ==
    /\ trPc = "built"
    /\ \E nd \in Nodes(trRoot) :
          /\ nd.kind = "split"
          /\ \E c \in ValidCandidates(Pick(trX, nd.rows), Pick(trY, nd.rows), trMinLeaf) :
                /\ c # <<nd.feature, nd.threshold>>
                /\ GainOf(Pick(trX, nd.rows), Pick(trY, nd.rows), c)
                       = GainOf(Pick(trX, nd.rows), Pick(trY, nd.rows), <<nd.feature, nd.threshold>>)

\* C16: the two recursive calls of every split node receive disjoint,
\* non-empty sets of rows that together are exactly the rows of the node,
\* each a strict subset, one level deeper; so the recursion ends.
C16_StrictSubsets ==
    trPc = "built" =>
        /\ Range(trRoot.rows) = 1..Len(trY)
        /\ \A nd \in Nodes(trRoot) :
              /\ Cardinality(Range(nd.rows)) = Len(nd.rows)
              /\ nd.kind = "split" =>
                    /\ Range(nd.left.rows) \cap Range(nd.right.rows) = {}
                    /\ Range(nd.left.rows) \cup Range(nd.right.rows) = Range(nd.rows)
                    /\ Range(nd.left.rows) # {}
                    /\ Range(nd.right.rows) # {}
                    /\ Len(nd.left.rows) < Len(nd.rows)
                    /\ Len(nd.right.rows) < Len(nd.rows)
                    /\ nd.left.depth = nd.depth + 1
                    /\ nd.right.depth = nd.depth + 1

\* minLeaf = 0 puts no lower limit on a side: a tree of three levels of
\* splits that ends in a leaf of one row
C16_Witness ==
    /\ trPc = "built"
    /\ trMinLeaf = 0
    /\ trMaxDepth = 3
    /\ \E leaf \in Leaves(trRoot) : leaf.depth = 3 /\ leaf.size = 1

\* the number of rows of X whose slot f is below v, and at most v
CountBelow(X, f, v) == Cardinality({i \in 1..Len(X) : X[i][f + 1] < v})

CountUpTo(X, f, v) == Cardinality({i \in 1..Len(X) : X[i][f + 1] <= v})

\* the value at position p (0-based) of the column f of X sorted ascending
\* with its repeated values kept
ValueAtSortedPosition(X, f, p) ==
    CHOOSE v \in {X[i][f + 1] : i \in 1..Len(X)} :
        CountBelow(X, f, v) <= p /\ p < CountUpTo(X, f, v)

\* the rows of X a node holds
NodeRows(nd) == Pick(trX, nd.rows)

\* C17 as stated: the candidate thresholds of every feature at every node are
\* the values at the positions floor(q * m / 10), q = 1..9, of the sorted
\* distinct values, m the number of distinct values.
C17_QuantilesOfDistinctValues ==
    trPc = "built" =>
        \A nd \in Nodes(trRoot) : \A f \in 0..(NFeat(trX) - 1) :
            Range(Candidates(NodeRows(nd), f)) = Range(CandidatesOfDistinct(NodeRows(nd), f))

\* C17 amended: the candidate thresholds of every feature at every node with
\* n >= 1 rows are the nine values at the positions floor(q * n / 10),
\* q = 1..9, of the n feature values sorted with repeated values kept.
C17_QuantilesOfAllValues ==
    trPc = "built" =>
        \A nd \in Nodes(trRoot) : \A f \in 0..(NFeat(trX) - 1) :
            nd.size >= 1 =>
                /\ Len(Candidates(NodeRows(nd), f)) = 9
                /\ \A q \in 1..9 :
                      Candidates(NodeRows(nd), f)[q]
                          = ValueAtSortedPosition(NodeRows(nd), f, (q * nd.size) \div 10)

\* a split node of at least ten rows with a repeated feature value whose
\* candidates are not those of the distinct values
C17_Witness ==
    /\ trPc = "built"
    /\ trRoot.kind = "split"
    /\ Len(trX) >= 10
    /\ \E f \in 0..(NFeat(trX) - 1) :
          /\ Cardinality({trX[i][f + 1] : i \in 1..Len(trX)}) < Len(trX)
          /\ Range(Candidates(trX, f)) # Range(CandidatesOfDistinct(trX, f))

\* the rows whose timestamp cell is absent or not a valid Date
UndatedRows(frame) ==
    {t \in 0..(Len(frame.rows) - 1) : ~IsValidDate(frame.rows[t + 1][frame.datetimeKey])}

\* the last four slots of a vector
LastFour(x) == SubSeq(x, Len(x) - 3, Len(x))

\* C18: with a timestamp column, the vector of a row without a valid
\* timestamp ends in the four slots 0, 0, 0, 0, and such a row is an example
\* whenever its numeric cells qualify it.
C18_UndatedRowsKept ==
    xyPc # "input" /\ xyTarget # NullTarget /\ xyDf.datetimeKey # NoKey =>
        \A t \in UndatedRows(xyDf) :
            /\ LastFour(makeXAt(xyDf, xyTarget, t)) = <<0, 0, 0, 0>>
            /\ t \in ExampleRows(xyDf, xyTarget) =>
                  \E k \in 1..Len(xyOut.X) :
                      /\ xyOut.X[k] = makeXAt(xyDf, xyTarget, t)
                      /\ LastFour(xyOut.X[k]) = <<0, 0, 0, 0>>
                      /\ k = Cardinality({u \in ExampleRows(xyDf, xyTarget) : u <= t})

\* an example made from a row without a valid timestamp, next to examples of
\* dated rows
C18_Witness ==
    /\ xyPc # "input"
    /\ xyTarget # NullTarget
    /\ xyDf.datetimeKey # NoKey
    /\ \E t \in UndatedRows(xyDf) : t \in ExampleRows(xyDf, xyTarget)
    /\ \E k \in 1..Len(xyOut.X) : LastFour(xyOut.X[k]) # <<0, 0, 0, 0>>

\* C19: a step that changes the selected target or the dataset leaves no
\* prediction stored, so a stored prediction was always computed by predict
\* under the target it is displayed with.
C19_PredictionOfCurrentTarget ==
    [][(target' # target \/ df' # df) => prediction'.isNull]_vars

\* the target is null or a numeric column of the held dataset, and a model is
\* held only with a dataset and a target
TargetOfDataset ==
    /\ target = NullTarget \/ (~df.isNull /\ target \in Range(df.numericCols))
    /\ ~model.isNull => ~df.isNull /\ target # NullTarget

\* a call of onFileChange resumes and its parse returns a DataFrame
ImportCompletes == \E k \in 1..Len(pending) : FinishImport(k) /\ ~pending[k].throws

\* C20: in every state the target is null or a numeric column of the held
\* dataset and a model is held only with a dataset and a target; an import
\* that completes installs the parsed dataset, sets the target to its first
\* numeric column (null if it has none) and clears model and prediction.
C20_TargetOfDataset ==
    /\ []TargetOfDataset
    /\ [][ImportCompletes =>
              /\ ~df'.isNull
              /\ target' = (IF Len(df'.numericCols) > 0 THEN df'.numericCols[1] ELSE NullTarget)
              /\ model'.isNull
              /\ prediction'.isNull
              /\ status' = <<"Loaded.">>]_vars

\* a dataset without numeric column has been imported: no target
C20_Witness ==
    /\ status = <<"Loaded.">>
    /\ ~df.isNull
    /\ Len(df.numericCols) = 0
    /\ target = NullTarget
    /\ model.isNull

\* a file with an unsupported extension is picked
UnsupportedPick == \E file \in Files : StartImport(file) /\ ~Supported(file)

\* a call of onFileChange resumes and its parse throws
ImportThrows == \E k \in 1..Len(pending) : FinishImport(k) /\ pending[k].throws

\* C21: an import that fails, by an unsupported extension or by a parse that
\* throws, changes only the status message: dataset, visibility, target,
\* model and prediction keep their values.
C21_FailedImportFrame ==
    [][(UnsupportedPick \/ ImportThrows) =>
          /\ df' = df
          /\ visible' = visible
          /\ target' = target
          /\ model' = model
          /\ prediction' = prediction
          /\ status' \in {<<"Unsupported file type. Please select CSV/XLSX.">>,
                          <<"Parse error">>}]_vars

\* a parse has just thrown while a dataset, a model and a prediction are held
C21_Witness ==
    /\ status = <<"Parse error">>
    /\ ~df.isNull
    /\ target # NullTarget
    /\ ~model.isNull
    /\ ~prediction.isNull

\* C22: once no import is pending, the held dataset, target and visibility
\* are those the file picked last gives (when that file parses), whatever
\* the order in which the pending reads finished.
C22_LastPickedWins ==
    pending = <<>> /\ Supported(lastPick) /\ ~lastPick.throws =>
        /\ df = Parsed(lastPick)
        /\ target \in {FirstNumeric(Parsed(lastPick))} \cup Range(Parsed(lastPick).numericCols)
        /\ DOMAIN visible = DOMAIN DefaultVisible(Parsed(lastPick))

\* the stored prediction is what the held model returns for the next vector
\* of the held dataset under one of its targets
PredictionOfHeldModel ==
    ~prediction.isNull =>
        /\ ~model.isNull
        /\ ~df.isNull
        /\ \E tgt \in Range(df.numericCols) :
              /\ ~NoNextVector(makeNextX(df, tgt))
              /\ prediction = SomePrediction(predictTree(model.root, makeNextX(df, tgt)))

\* C23: a train that installs a model clears the prediction, every step that
\* changes the model leaves no prediction, only a predict that succeeds
\* stores a prediction, and so in every state a stored prediction is the
\* output of the model held in that state.
C23_PredictionOfCurrentModel ==
    /\ []PredictionOfHeldModel
    /\ [][/\ (train /\ status'[1] = "Trained CART") => prediction'.isNull
          /\ model' # model => prediction'.isNull
          /\ (prediction' # prediction /\ ~prediction'.isNull) =>
                (predict /\ status' = <<"Predicted next 1 step", target>>)]_vars

\* train has just refused while a model and its prediction are held
C23_Witness ==
    /\ status = <<"Not enough rows to train (need >= 20 after cleaning).">>
    /\ ~model.isNull
    /\ ~prediction.isNull

====
